---- MODULE Spec2Model ----
(***************************************************************************)
(* bunnylol.rs: the command registry (bunnylol_command_registry.rs), the   *)
(* open command (commands/open.rs) and the HTTP search handler             *)
(* (server/mod.rs).                                                        *)
(*                                                                         *)
(* A Rust &str / String is a sequence of one-character strings, so that    *)
(* starts_with, len, trim and format! are computed character by character. *)
(* Option<T> is the record None or Some(x).                                *)
(***************************************************************************)
EXTENDS Integers, Sequences, FiniteSets, TLC

\* ------------------------------------------------------------------ bounds
\* Rocket worker threads serving requests concurrently (SpecConc).
NumWorkers == 2

\* ------------------------------------------------------------ Option, str
None == [some |-> FALSE]
Some(x) == [some |-> TRUE, val |-> x]

\* str::starts_with
StartsWith(s, p) == Len(s) >= Len(p) /\ SubSeq(s, 1, Len(p)) = p

\* char::is_whitespace, over the characters the inputs use
IsWhitespace(c) == c = " "

RECURSIVE TrimStart(_)
TrimStart(s) ==
    IF s # << >> /\ IsWhitespace(Head(s)) THEN TrimStart(Tail(s)) ELSE s

RECURSIVE TrimEnd(_)
TrimEnd(s) ==
    IF s # << >> /\ IsWhitespace(s[Len(s)])
    THEN TrimEnd(SubSeq(s, 1, Len(s) - 1))
    ELSE s

\* str::trim
Trim(s) == TrimEnd(TrimStart(s))

\* str::find(' '): the index of the first space, 0 when there is none
FindSpace(s) ==
    IF \E i \in 1..Len(s) : s[i] = " "
    THEN CHOOSE i \in 1..Len(s) : s[i] = " " /\ \A j \in 1..(i - 1) : s[j] # " "
    ELSE 0

\* utils::get_command_from_query_string: the first space-delimited token
get_command_from_query_string(query_string) ==
    IF FindSpace(query_string) = 0
    THEN query_string
    ELSE SubSeq(query_string, 1, FindSpace(query_string) - 1)

\* BunnylolCommand::get_command_args: the argument string without its
\* command token
get_command_args(args) ==
    IF FindSpace(args) = 0
    THEN << >>
    ELSE SubSeq(args, FindSpace(args) + 1, Len(args))

\* percent-encoding of a query value
EncodeChar(c) ==
    CASE c = " " -> <<"%", "2", "0">>
      [] c = "$" -> <<"%", "2", "4">>
      [] c = "/" -> <<"%", "2", "F">>
      [] c = ":" -> <<"%", "3", "A">>
      [] OTHER   -> <<c>>

RECURSIVE Encode(_)
Encode(s) == IF s = << >> THEN << >> ELSE EncodeChar(Head(s)) \o Encode(Tail(s))

\* -------------------------------------------------------------- commands
HTTP == <<"h", "t", "t", "p", ":", "/", "/">>
HTTPS == <<"h", "t", "t", "p", "s", ":", "/", "/">>

OpenCommand_BINDINGS == << <<"o", "p", "e", "n">> >>

\* OpenCommand::process_args
OpenCommand_process_args(args) ==
    LET fqdn == Trim(get_command_args(args))
    IN  IF fqdn = << >>
        THEN HTTPS
        ELSE IF StartsWith(fqdn, HTTP) \/ StartsWith(fqdn, HTTPS)
             THEN fqdn
             ELSE HTTPS \o fqdn

\* OpenCommand::get_info
OpenCommand_get_info ==
    [bindings    |-> OpenCommand_BINDINGS,
     description |-> "Open an arbitrary website by FQDN",
     example     |-> "open example.com"]

\* <Cmd>::BINDINGS of the registered commands the tests name, and of a
\* command that declares bindings other commands already declare
BINDINGS(c) ==
    CASE c = "GitHubCommand"    -> << <<"g", "h">> >>
      [] c = "RedditCommand"    -> << <<"r">>, <<"r", "e", "d", "d", "i", "t">> >>
      [] c = "InstagramCommand" -> << <<"i", "g">>, <<"i", "n", "s", "t", "a", "g", "r", "a", "m">> >>
      [] c = "OpenCommand"      -> OpenCommand_BINDINGS
      [] c = "ShadowCommand"    -> << <<"i", "g">>, <<"o", "p", "e", "n">> >>

\* A service command: the service's root page, or the page the arguments name
ServiceUrl(root, args) ==
    LET rest == Trim(get_command_args(args))
    IN  IF rest = << >> THEN root ELSE root \o <<"/">> \o Encode(rest)

\* GoogleSearchCommand::process_args, the built-in default search
GoogleSearchCommand_process_args(args) ==
    <<"h", "t", "t", "p", "s", ":", "/", "/", "w", "w", "w", ".", "g", "o", "o", "g", "l", "e", ".", "c", "o", "m", "/", "s", "e", "a", "r", "c", "h", "?", "q", "=">> \o Encode(args)

\* StockCommand::process_ticker
process_ticker(command) ==
    <<"h", "t", "t", "p", "s", ":", "/", "/", "f", "i", "n", "a", "n", "c", "e", ".", "y", "a", "h", "o", "o", ".", "c", "o", "m", "/", "q", "u", "o", "t", "e", "/">> \o Encode(Tail(command))

\* <Cmd>::process_args
process_args(c, args) ==
    CASE c = "GitHubCommand"    -> ServiceUrl(<<"h", "t", "t", "p", "s", ":", "/", "/", "g", "i", "t", "h", "u", "b", ".", "c", "o", "m">>, args)
      [] c = "RedditCommand"    -> ServiceUrl(<<"h", "t", "t", "p", "s", ":", "/", "/", "w", "w", "w", ".", "r", "e", "d", "d", "i", "t", ".", "c", "o", "m">>, args)
      [] c = "InstagramCommand" -> ServiceUrl(<<"h", "t", "t", "p", "s", ":", "/", "/", "w", "w", "w", ".", "i", "n", "s", "t", "a", "g", "r", "a", "m", ".", "c", "o", "m">>, args)
      [] c = "OpenCommand"      -> OpenCommand_process_args(args)
      [] c = "ShadowCommand"    -> ServiceUrl(<<"h", "t", "t", "p", "s", ":", "/", "/", "s", "h", "a", "d", "o", "w", ".", "e", "x", "a", "m", "p", "l", "e">>, args)

\* <Cmd>::get_info
get_info(c) ==
    IF c = "OpenCommand"
    THEN OpenCommand_get_info
    ELSE [bindings |-> BINDINGS(c), description |-> c, example |-> c]

\* ------------------------------------------------------------- registry
\* The commands register_commands! lists, in registration order
RegisteredCommands ==
    << "GitHubCommand", "RedditCommand", "InstagramCommand", "OpenCommand" >>

\* Registration lists in which ShadowCommand is listed too, at any position
InsertAt(s, i, x) == SubSeq(s, 1, i - 1) \o <<x>> \o SubSeq(s, i, Len(s))

ShadowedRegistrations ==
    { InsertAt(RegisteredCommands, i, "ShadowCommand") :
        i \in 1..(Len(RegisteredCommands) + 1) }

\* HashMap::new
EmptyMap == [k \in {} |-> "none"]

\* Mutation of MapInsert: a key that is present keeps its value
MapInsert_KeepFirst(map, k, v) ==
    [x \in (DOMAIN map) \cup {k} |-> IF x \in DOMAIN map THEN map[x] ELSE v]

\* HashMap::insert: the new value replaces the one the key had
MapInsert(map, k, v) ==
    [x \in (DOMAIN map) \cup {k} |-> IF x = k THEN v ELSE map[x]]

\* Mutation of Insertions: only the first binding of each command is inserted
RECURSIVE Insertions_FirstBindingOnly(_)
Insertions_FirstBindingOnly(reg) ==
    IF reg = << >>
    THEN << >>
    ELSE << [alias |-> BINDINGS(Head(reg))[1], handler |-> Head(reg)] >>
         \o Insertions_FirstBindingOnly(Tail(reg))

\* The (alias, handler) pairs initialize_command_lookup inserts, in order:
\* for each command in registration order, its bindings in declaration order
RECURSIVE Insertions(_)
Insertions(reg) ==
    IF reg = << >>
    THEN << >>
    ELSE [i \in 1..Len(BINDINGS(Head(reg))) |->
            [alias |-> BINDINGS(Head(reg))[i], handler |-> Head(reg)]]
         \o Insertions(Tail(reg))

\* get_all_commands_impl: one descriptor per command, in registration order
get_all_commands_impl(reg) == [i \in 1..Len(reg) |-> get_info(reg[i])]

\* Mutation of OnceCanInit: a caller that finds the cell being initialised
\* runs the initialiser too
OnceCanInit_Unguarded(cell) == cell.state # "complete"

\* OnceLock::get_or_init: the caller that finds the cell uninitialised runs
\* the initialiser, callers that find it being initialised wait, callers that
\* find it initialised read the value
OnceCanInit(cell) == cell.state = "uninit"

OnceReady(cell) == cell.state = "complete"

\* ---------------------------------------------------------------- router
\* Mutation of process_prefix_commands: the bare "$" is dispatched too
process_prefix_commands_BareSentinel(command) ==
    IF StartsWith(command, <<"$">>) THEN Some(process_ticker(command)) ELSE None

\* process_prefix_commands
process_prefix_commands(command) ==
    IF StartsWith(command, <<"$">>)
    THEN IF Len(command) <= 1 THEN None ELSE Some(process_ticker(command))
    ELSE None

\* BunnylolConfig::get_search_url
SearchTemplate(default_search) ==
    CASE default_search = "google"     -> <<"h", "t", "t", "p", "s", ":", "/", "/", "w", "w", "w", ".", "g", "o", "o", "g", "l", "e", ".", "c", "o", "m", "/", "s", "e", "a", "r", "c", "h", "?", "q", "=">>
      [] default_search = "duckduckgo" -> <<"h", "t", "t", "p", "s", ":", "/", "/", "d", "u", "c", "k", "d", "u", "c", "k", "g", "o", ".", "c", "o", "m", "/", "?", "q", "=">>

get_search_url(cfg, query) == SearchTemplate(cfg.default_search) \o Encode(query)

\* BunnylolConfig::resolve_command: the expansion of a user alias, else the
\* command itself
resolve_command(cfg, cmd_str) ==
    IF cmd_str \in DOMAIN cfg.aliases THEN cfg.aliases[cmd_str] ELSE cmd_str

\* Mutation of MatchLookup: the default search is given the token only
MatchLookup_SearchesToken(lookup, command, full_args, cfg) ==
    IF command \in DOMAIN lookup
    THEN process_args(lookup[command], full_args)
    ELSE IF cfg.some
         THEN get_search_url(cfg.val, command)
         ELSE GoogleSearchCommand_process_args(command)

\* Mutation of MatchLookup: the handler is given the token only
MatchLookup_HandlerGetsToken(lookup, command, full_args, cfg) ==
    IF command \in DOMAIN lookup
    THEN process_args(lookup[command], command)
    ELSE IF cfg.some
         THEN get_search_url(cfg.val, full_args)
         ELSE GoogleSearchCommand_process_args(full_args)

\* process_command_with_config, from the lookup on: the match on lookup.get
MatchLookup(lookup, command, full_args, cfg) ==
    IF command \in DOMAIN lookup
    THEN process_args(lookup[command], full_args)
    ELSE IF cfg.some
         THEN get_search_url(cfg.val, full_args)
         ELSE GoogleSearchCommand_process_args(full_args)

\* initialize_command_lookup as a whole: every insertion, in order
RECURSIVE InsertAll(_, _)
InsertAll(map, ins) ==
    IF ins = << >>
    THEN map
    ELSE InsertAll(MapInsert(map, Head(ins).alias, Head(ins).handler), Tail(ins))

initialize_command_lookup(reg) == InsertAll(EmptyMap, Insertions(reg))

\* process_command_with_config as a whole, the registry table built
process_command_with_config(reg, command, full_args, cfg) ==
    LET url == process_prefix_commands(command)
    IN  IF url.some
        THEN url.val
        ELSE MatchLookup(initialize_command_lookup(reg), command, full_args, cfg)

\* ---------------------------------------------------------- serving layer
\* Redirect::to(url), RawHtml(page), and a worker that has answered nothing
NoResponse == [kind |-> "none"]
Redirect(url) == [kind |-> "redirect", to |-> url]
RawHtml(commands) == [kind |-> "landing", commands |-> commands]

\* search, the history block: with history disabled nothing is tried; else
\* History::new may give no store, and history.add may fail or succeed
HistoryOutcomes(cfg) ==
    IF cfg.history.enabled THEN {"unopened", "failed", "saved"} ELSE {"disabled"}

\* search: the eprintln! of the history block runs when history.add is Err
HistoryWarns(outcome) == outcome = "failed"

\* Mutation of SearchResponse: a failed history write replaces the redirect
SearchResponse_HistoryErrorFails(redirect_url, outcome) ==
    IF outcome = "failed" THEN RawHtml(<< >>) ELSE Redirect(redirect_url)

\* search: what the handler returns after the history block
SearchResponse(redirect_url, outcome) == Redirect(redirect_url)

\* Mutation of SearchResolved: the expansion is resolved again
SearchResolved_Chained(cfg, cmd_str) ==
    resolve_command(cfg, resolve_command(cfg, cmd_str))

\* search: the string the router is given as full_args
SearchResolved(cfg, cmd_str) == resolve_command(cfg, cmd_str)

\* search: the string the command token is taken from
SearchCommand(cfg, cmd_str) ==
    get_command_from_query_string(SearchResolved(cfg, cmd_str))

\* ----------------------------------------------------------------- inputs
\* The user aliases of a configuration
NoAliases == [k \in {} |-> << >>]
WorkAlias == [k \in {<<"w", "o", "r", "k">>} |-> <<"g", "h", " ", "m", "b", "i", "n", "n", "s">>]
ChainAlias == [k \in {<<"w", "o", "r", "k">>, <<"h", "o", "m", "e">>} |-> IF k = <<"w", "o", "r", "k">> THEN <<"h", "o", "m", "e">> ELSE <<"g", "h", " ", "m", "b", "i", "n", "n", "s">>]

Configs ==
    [default_search : {"google", "duckduckgo"},
     aliases        : {NoAliases, WorkAlias, ChainAlias},
     history        : [enabled : BOOLEAN]]

ConcConfig ==
    [default_search |-> "duckduckgo", aliases |-> WorkAlias,
     history |-> [enabled |-> TRUE]]

\* The cmd query strings clients send
RawCmds ==
    { <<" ">>, <<"$">>, <<"$", "A", "A", "P", "L">>, <<"$", " ", "x">>, <<"g", "h">>, <<"g", "h", " ", "m", "b", "i", "n", "n", "s">>, <<"G", "H">>, <<"i", "g">>, <<"r", "e", "d", "d", "i", "t", " ", "r", "u", "s", "t">>,
      <<"o", "p", "e", "n">>, <<"o", "p", "e", "n", " ">>, <<"o", "p", "e", "n", " ", "e", "x", "a", "m", "p", "l", "e", ".", "c", "o", "m">>, <<"o", "p", "e", "n", " ", "h", "t", "t", "p", ":", "/", "/", "e", "x", "a", "m", "p", "l", "e", ".", "c", "o", "m">>,
      <<"o", "p", "e", "n", " ", "a", " ", "b">>, <<"w", "o", "r", "k">>, <<"h", "o", "m", "e">>, <<"z", "z", "z">>, << >> }

\* The command tokens a direct caller of the router passes
ApiTokens == { << >>, <<"$">>, <<"$", "A", "A", "P", "L">>, <<"g", "h">>, <<"o", "p", "e", "n">>, <<"z", "z", "z">> }

ConcCmds == { <<"g", "h", " ", "m", "b", "i", "n", "n", "s">>, <<"$", "A", "A", "P", "L">>, <<"z", "z", "z">> }
ConcTokens == { <<"g", "h">> }

ShadowCmds == { <<"i", "g">>, <<"o", "p", "e", "n", " ", "e", "x", "a", "m", "p", "l", "e", ".", "c", "o", "m">>, <<"g", "h">>, <<"z", "z", "z">> }
ShadowTokens == { <<"o", "p", "e", "n">> }

Workers == 1..NumWorkers

\* ------------------------------------------------------------------ state
VARIABLES
    config,          \* the managed BunnylolConfig
    registered,      \* the command list given to register_commands!
    COMMAND_LOOKUP,  \* OnceLock<HashMap<&str, CommandHandler>>
    BINDINGS_DATA,   \* OnceLock<Vec<BunnylolCommandInfo>>
    w,               \* each worker's call frame
    builds,          \* executions of initialize_command_lookup so far
    allocs,          \* executions of get_all_commands_impl so far
    returned         \* the values get_all_commands has returned so far

vars == <<config, registered, COMMAND_LOOKUP, BINDINGS_DATA, w, builds, allocs, returned>>

IdleFrame ==
    [pc |-> "idle", mode |-> "none", cmd |-> None, command |-> << >>,
     full_args |-> << >>, cfg |-> None, map |-> EmptyMap, pos |-> 0,
     lookup |-> None, vec |-> None, redirect_url |-> None, hist |-> "none",
     warned |-> FALSE, response |-> NoResponse]

InitWith(regs, cfgs) ==
    /\ config \in cfgs
    /\ registered \in regs
    /\ COMMAND_LOOKUP = [state |-> "uninit", value |-> EmptyMap]
    /\ BINDINGS_DATA = [state |-> "uninit", value |-> None]
    /\ w = [t \in Workers |-> IdleFrame]
    /\ builds = 0
    /\ allocs = 0
    /\ returned = {}

\* process_command_with_config up to the lookup: the prefix check
Enter(t, mode, cmd, command, full_args, cfg) ==
    LET url == process_prefix_commands(command)
        f   == [IdleFrame EXCEPT !.mode = mode, !.cmd = cmd, !.command = command,
                                 !.full_args = full_args, !.cfg = cfg]
    IN  /\ w[t].pc = "idle"
        /\ w' = [w EXCEPT ![t] =
                   IF url.some
                   THEN [f EXCEPT !.pc = "ret", !.redirect_url = url]
                   ELSE [f EXCEPT !.pc = "get_or_init"]]
        /\ UNCHANGED <<config, registered, COMMAND_LOOKUP, BINDINGS_DATA,
                       builds, allocs, returned>>

\* search, cmd = Some(cmd_str): alias resolution, tokenisation, router call
Search(t, cmd_str) ==
    Enter(t, "http", Some(cmd_str), SearchCommand(config, cmd_str),
          SearchResolved(config, cmd_str), Some(config))

\* process_command / process_command_with_config called directly
ProcessCommand(t, command, full_args, cfg) ==
    Enter(t, "api", None, command, full_args, cfg)

\* COMMAND_LOOKUP.get_or_init, the cell initialised: read it
LookupRead(t) ==
    /\ w[t].pc = "get_or_init"
    /\ OnceReady(COMMAND_LOOKUP)
    /\ w' = [w EXCEPT ![t].pc = "match", ![t].lookup = Some(COMMAND_LOOKUP.value)]
    /\ UNCHANGED <<config, registered, COMMAND_LOOKUP, BINDINGS_DATA,
                   builds, allocs, returned>>

\* COMMAND_LOOKUP.get_or_init, the cell uninitialised: this caller starts
\* initialize_command_lookup with `let mut map = HashMap::new()`
LookupInitStart(t) ==
    /\ w[t].pc = "get_or_init"
    /\ OnceCanInit(COMMAND_LOOKUP)
    /\ COMMAND_LOOKUP' = [COMMAND_LOOKUP EXCEPT !.state = "running"]
    /\ w' = [w EXCEPT ![t].pc = "init", ![t].map = EmptyMap, ![t].pos = 1]
    /\ builds' = builds + 1
    /\ UNCHANGED <<config, registered, BINDINGS_DATA, allocs, returned>>

\* initialize_command_lookup: one map.insert(*alias, process_args)
LookupInitInsert(t) ==
    /\ w[t].pc = "init"
    /\ w[t].pos <= Len(Insertions(registered))
    /\ LET ins == Insertions(registered)[w[t].pos]
       IN  w' = [w EXCEPT ![t].map = MapInsert(w[t].map, ins.alias, ins.handler),
                          ![t].pos = w[t].pos + 1]
    /\ UNCHANGED <<config, registered, COMMAND_LOOKUP, BINDINGS_DATA,
                   builds, allocs, returned>>

\* initialize_command_lookup returns map; get_or_init stores it and returns
\* the reference to the stored value
LookupInitDone(t) ==
    /\ w[t].pc = "init"
    /\ w[t].pos > Len(Insertions(registered))
    /\ COMMAND_LOOKUP' = [state |-> "complete", value |-> w[t].map]
    /\ w' = [w EXCEPT ![t].pc = "match", ![t].lookup = Some(w[t].map),
                      ![t].map = EmptyMap, ![t].pos = 0]
    /\ UNCHANGED <<config, registered, BINDINGS_DATA, builds, allocs, returned>>

\* process_command_with_config: match lookup.get(command)
Match(t) ==
    /\ w[t].pc = "match"
    /\ w' = [w EXCEPT ![t].pc = "ret",
                      ![t].redirect_url =
                          Some(MatchLookup(w[t].lookup.val, w[t].command,
                                           w[t].full_args, w[t].cfg))]
    /\ UNCHANGED <<config, registered, COMMAND_LOOKUP, BINDINGS_DATA,
                   builds, allocs, returned>>

\* search after the router returned: the history block, then the redirect
Respond(t, outcome) ==
    /\ w[t].pc = "ret"
    /\ w[t].mode = "http"
    /\ outcome \in HistoryOutcomes(config)
    /\ w' = [w EXCEPT ![t].pc = "done", ![t].hist = outcome,
                      ![t].warned = HistoryWarns(outcome),
                      ![t].response = SearchResponse(w[t].redirect_url.val, outcome)]
    /\ UNCHANGED <<config, registered, COMMAND_LOOKUP, BINDINGS_DATA,
                   builds, allocs, returned>>

\* the router returns its URL to a direct caller
Return(t) ==
    /\ w[t].pc = "ret"
    /\ w[t].mode = "api"
    /\ w' = [w EXCEPT ![t].pc = "done"]
    /\ UNCHANGED <<config, registered, COMMAND_LOOKUP, BINDINGS_DATA,
                   builds, allocs, returned>>

\* search, cmd = None: the landing page, rendered from get_all_commands
Landing(t) ==
    /\ w[t].pc = "idle"
    /\ w' = [w EXCEPT ![t] = [IdleFrame EXCEPT !.pc = "bd_get_or_init", !.mode = "http"]]
    /\ UNCHANGED <<config, registered, COMMAND_LOOKUP, BINDINGS_DATA,
                   builds, allocs, returned>>

\* Mutation of BindingsRead: every call builds and returns a new Vec
BindingsRead_Rebuilds(t) ==
    /\ w[t].pc = "bd_get_or_init"
    /\ OnceReady(BINDINGS_DATA)
    /\ allocs' = allocs + 1
    /\ w' = [w EXCEPT ![t].pc = "done",
                      ![t].vec = Some([ptr |-> allocs + 1,
                                       content |-> get_all_commands_impl(registered)]),
                      ![t].response = RawHtml(get_all_commands_impl(registered))]
    /\ returned' = returned \cup {[ptr |-> allocs + 1,
                                   content |-> get_all_commands_impl(registered)]}
    /\ UNCHANGED <<config, registered, COMMAND_LOOKUP, BINDINGS_DATA, builds>>

\* get_all_commands, the cell initialised: the reference to the cached Vec
BindingsRead(t) ==
    /\ w[t].pc = "bd_get_or_init"
    /\ OnceReady(BINDINGS_DATA)
    /\ w' = [w EXCEPT ![t].pc = "done", ![t].vec = BINDINGS_DATA.value,
                      ![t].response = RawHtml(BINDINGS_DATA.value.val.content)]
    /\ returned' = returned \cup {BINDINGS_DATA.value.val}
    /\ UNCHANGED <<config, registered, COMMAND_LOOKUP, BINDINGS_DATA, builds, allocs>>

\* get_all_commands, the cell uninitialised: this caller runs
\* get_all_commands_impl, which allocates a new Vec
BindingsInitStart(t) ==
    /\ w[t].pc = "bd_get_or_init"
    /\ OnceCanInit(BINDINGS_DATA)
    /\ BINDINGS_DATA' = [BINDINGS_DATA EXCEPT !.state = "running"]
    /\ allocs' = allocs + 1
    /\ w' = [w EXCEPT ![t].pc = "bd_init",
                      ![t].vec = Some([ptr |-> allocs + 1,
                                       content |-> get_all_commands_impl(registered)])]
    /\ UNCHANGED <<config, registered, COMMAND_LOOKUP, builds, returned>>

\* get_or_init stores the Vec and returns the reference to the stored value
BindingsInitDone(t) ==
    /\ w[t].pc = "bd_init"
    /\ BINDINGS_DATA' = [state |-> "complete", value |-> w[t].vec]
    /\ w' = [w EXCEPT ![t].pc = "done",
                      ![t].response = RawHtml(w[t].vec.val.content)]
    /\ returned' = returned \cup {w[t].vec.val}
    /\ UNCHANGED <<config, registered, COMMAND_LOOKUP, builds, allocs>>

\* the worker is free for the next request
Finish(t) ==
    /\ w[t].pc = "done"
    /\ w' = [w EXCEPT ![t] = IdleFrame]
    /\ UNCHANGED <<config, registered, COMMAND_LOOKUP, BINDINGS_DATA,
                   builds, allocs, returned>>

Step(T, cmds, tokens) ==
    \E t \in T :
        \/ \E cmd_str \in cmds : Search(t, cmd_str)
        \/ \E command \in tokens, full_args \in cmds, cfg \in {None, Some(config)} :
              ProcessCommand(t, command, full_args, cfg)
        \/ LookupRead(t)
        \/ LookupInitStart(t)
        \/ LookupInitInsert(t)
        \/ LookupInitDone(t)
        \/ Match(t)
        \/ \E outcome \in {"disabled", "unopened", "failed", "saved"} : Respond(t, outcome)
        \/ Return(t)
        \/ Landing(t)
        \/ BindingsRead(t)
        \/ BindingsInitStart(t)
        \/ BindingsInitDone(t)
        \/ Finish(t)

\* One worker, every input and every configuration
Init == InitWith({RegisteredCommands}, Configs)
Next == Step({1}, RawCmds, ApiTokens)
Spec == Init /\ [][Next]_vars

\* NumWorkers workers racing on the two OnceLock cells
InitConc == InitWith({RegisteredCommands}, {ConcConfig})
NextConc == Step(Workers, ConcCmds, ConcTokens)
SpecConc == InitConc /\ [][NextConc]_vars

\* One worker, registration lists in which two commands share a binding
InitShadow == InitWith(ShadowedRegistrations, {ConcConfig})
NextShadow == Step({1}, ShadowCmds, ShadowTokens)
SpecShadow == InitShadow /\ [][NextShadow]_vars

\* ------------------------------------------------------------ properties
Range(s) == {s[i] : i \in DOMAIN s}

\* Every binding string some registered command declares
AllBindings(reg) == UNION {Range(BINDINGS(reg[i])) : i \in DOMAIN reg}

\* A prefix command token: '$' first, and longer than the bare '$'
IsPrefixToken(command) == Len(command) > 1 /\ command[1] = "$"

\* The router has produced its URL for worker t's call
Routed(t) == w[t].pc \in {"ret", "done"} /\ w[t].redirect_url.some

\* The default-search destination of a raw input
DefaultSearch(cfg, full_args) ==
    IF cfg.some
    THEN get_search_url(cfg.val, full_args)
    ELSE GoogleSearchCommand_process_args(full_args)

\* C1: prefix dispatch happens exactly when the token starts with '$' and is
\* longer than one character: the call then returns the ticker handler's URL
\* without reading or initialising COMMAND_LOOKUP; any other token, the bare
\* "$" included, goes on to the registry lookup, and the bare "$" (no
\* binding) ends at the default search.
C1_PrefixDispatch ==
    /\ [][\A t \in Workers :
            (w[t].pc = "idle" /\ w'[t].pc \notin {"idle", "bd_get_or_init"}) =>
                IF IsPrefixToken(w'[t].command)
                THEN /\ w'[t].pc = "ret"
                     /\ w'[t].redirect_url = Some(process_ticker(w'[t].command))
                     /\ w'[t].lookup = None
                     /\ COMMAND_LOOKUP' = COMMAND_LOOKUP
                     /\ builds' = builds
                ELSE /\ w'[t].pc = "get_or_init"
                     /\ w'[t].redirect_url = None]_vars
    /\ [](\A t \in Workers :
            /\ (w[t].pc # "idle" /\ IsPrefixToken(w[t].command)) =>
                   (w[t].pc \in {"ret", "done"} /\ w[t].lookup = None)
            /\ (Routed(t) /\ w[t].command = <<"$">>) =>
                   /\ w[t].lookup.some
                   /\ w[t].redirect_url.val = DefaultSearch(w[t].cfg, w[t].full_args))

\* C1 witness: a "$AAPL" call has returned its ticker URL while COMMAND_LOOKUP
\* is still uninitialised.
C1_Witness ==
    \E t \in Workers :
        /\ Routed(t)
        /\ w[t].command = <<"$", "A", "A", "P", "L">>
        /\ w[t].redirect_url.val = <<"h", "t", "t", "p", "s", ":", "/", "/", "f", "i", "n", "a", "n", "c", "e", ".", "y", "a", "h", "o", "o", ".", "c", "o", "m", "/", "q", "u", "o", "t", "e", "/", "A", "A", "P", "L">>
        /\ COMMAND_LOOKUP.state = "uninit"
        /\ builds = 0

\* C2: a call whose token is no prefix command and no registered binding
\* returns the default search for the full argument string: the config's
\* search URL when a config is passed, Google's otherwise.
C2_MissFallsBackToDefaultSearch ==
    \A t \in Workers :
        (Routed(t) /\ ~IsPrefixToken(w[t].command)
                   /\ w[t].command \notin AllBindings(registered)) =>
            w[t].redirect_url.val =
                IF w[t].cfg.some
                THEN SearchTemplate(w[t].cfg.val.default_search) \o Encode(w[t].full_args)
                ELSE <<"h", "t", "t", "p", "s", ":", "/", "/", "w", "w", "w", ".", "g", "o", "o", "g", "l", "e", ".", "c", "o", "m", "/", "s", "e", "a", "r", "c", "h", "?", "q", "=">> \o Encode(w[t].full_args)

\* C2 witness: "zzz" with arguments "gh mbinns" and a DuckDuckGo config has
\* been routed to DuckDuckGo's search for the whole "gh mbinns".
C2_Witness ==
    \E t \in Workers :
        /\ Routed(t)
        /\ w[t].command = <<"z", "z", "z">>
        /\ w[t].full_args = <<"g", "h", " ", "m", "b", "i", "n", "n", "s">>
        /\ w[t].cfg.some
        /\ w[t].cfg.val.default_search = "duckduckgo"
        /\ w[t].redirect_url.val = <<"h", "t", "t", "p", "s", ":", "/", "/", "d", "u", "c", "k", "d", "u", "c", "k", "g", "o", ".", "c", "o", "m", "/", "?", "q", "=", "g", "h", "%", "2", "0", "m", "b", "i", "n", "n", "s">>

\* The command that declares binding b (the registered list has no collision)
Owner(reg, b) == CHOOSE c \in Range(reg) : b \in Range(BINDINGS(c))

\* C3: a call whose token is no prefix command and is a registered binding
\* returns what the binding's command returns for the full argument string,
\* with or without a config.
C3_HitReturnsHandlerResult ==
    \A t \in Workers :
        (Routed(t) /\ ~IsPrefixToken(w[t].command)
                   /\ w[t].command \in AllBindings(registered)) =>
            w[t].redirect_url.val =
                process_args(Owner(registered, w[t].command), w[t].full_args)

\* C3 witness: token "open" with the full arguments "open example.com", no
\* config, has been routed to https://example.com.
C3_Witness ==
    \E t \in Workers :
        /\ Routed(t)
        /\ w[t].command = <<"o", "p", "e", "n">>
        /\ w[t].full_args = <<"o", "p", "e", "n", " ", "e", "x", "a", "m", "p", "l", "e", ".", "c", "o", "m">>
        /\ w[t].cfg = None
        /\ w[t].redirect_url.val = <<"h", "t", "t", "p", "s", ":", "/", "/", "e", "x", "a", "m", "p", "l", "e", ".", "c", "o", "m">>

\* A syntactically valid URL: http:// or https://, then a host, no whitespace
ValidUrl(u) ==
    /\ \A i \in 1..Len(u) : ~IsWhitespace(u[i])
    /\ \/ StartsWith(u, HTTP) /\ Len(u) > Len(HTTP) /\ u[Len(HTTP) + 1] # "/"
       \/ StartsWith(u, HTTPS) /\ Len(u) > Len(HTTPS) /\ u[Len(HTTPS) + 1] # "/"

\* C4: the router is total: every URL it returns is non-empty and a
\* syntactically valid URL.
C4_RouterTotalValidUrl ==
    \A t \in Workers :
        Routed(t) => (w[t].redirect_url.val # << >> /\ ValidUrl(w[t].redirect_url.val))

\* C5: under any interleaving the registry table is built exactly once: one
\* execution of initialize_command_lookup, whose result is installed and never
\* replaced; every table a caller holds is the installed, fully built one; a
\* builder's unfinished map is seen by nobody else.
C5_RegistryBuiltExactlyOnce ==
    /\ [](/\ builds <= 1
          /\ Cardinality({t \in Workers : w[t].pc = "init"}) <= 1
          /\ (COMMAND_LOOKUP.state = "running") = (\E t \in Workers : w[t].pc = "init")
          /\ (COMMAND_LOOKUP.state # "complete") => COMMAND_LOOKUP.value = EmptyMap
          /\ \A t \in Workers :
                w[t].lookup.some =>
                    /\ COMMAND_LOOKUP.state = "complete"
                    /\ w[t].lookup.val = COMMAND_LOOKUP.value
                    /\ DOMAIN w[t].lookup.val = AllBindings(registered)
                    /\ w[t].lookup.val = initialize_command_lookup(registered))
    /\ [][COMMAND_LOOKUP.state = "complete" => COMMAND_LOOKUP' = COMMAND_LOOKUP]_vars

\* C5 witness: two workers that both entered get_or_init hold the table, and
\* one build was run.
C5_Witness ==
    /\ builds = 1
    /\ w[1].pc = "match" /\ w[2].pc = "match"
    /\ w[1].lookup.some /\ w[2].lookup.some
    /\ w[1].lookup = w[2].lookup
    /\ Cardinality(DOMAIN w[1].lookup.val) = 6

\* C6: get_all_commands builds the descriptor list once and caches it: all
\* calls return the same Vec (same allocation, same content), which holds one
\* descriptor per registered command in registration order, and the cached
\* value never changes.
C6_DescriptorsCachedOnce ==
    /\ [](/\ allocs <= 1
          /\ Cardinality(returned) <= 1
          /\ \A v \in returned :
                /\ BINDINGS_DATA = [state |-> "complete", value |-> Some(v)]
                /\ Len(v.content) = Len(registered)
                /\ \A i \in 1..Len(registered) :
                      v.content[i].bindings = BINDINGS(registered[i])
          /\ \A t \in Workers :
                (w[t].pc = "done" /\ w[t].vec.some) => w[t].vec.val \in returned)
    /\ [][BINDINGS_DATA.state = "complete" => BINDINGS_DATA' = BINDINGS_DATA]_vars

\* C6 witness: two workers have each had get_all_commands return, and both
\* hold the one Vec.
C6_Witness ==
    /\ w[1].pc = "done" /\ w[2].pc = "done"
    /\ w[1].vec.some /\ w[2].vec.some
    /\ w[1].vec = w[2].vec
    /\ returned = {w[1].vec.val}
    /\ Len(w[1].vec.val.content) = 4

\* C7: for every registered command and each binding it declares, the built
\* table maps the binding to that command's handler (calling it equals calling
\* the command's process_args), and the command's descriptor lists the binding.
C7_BindingRoundTrip ==
    \A i \in 1..Len(registered) :
        \A j \in 1..Len(BINDINGS(registered[i])) :
            LET b == BINDINGS(registered[i])[j]
            IN  /\ COMMAND_LOOKUP.state = "complete" =>
                      /\ b \in DOMAIN COMMAND_LOOKUP.value
                      /\ COMMAND_LOOKUP.value[b] = registered[i]
                      /\ \A a \in RawCmds :
                            MatchLookup(COMMAND_LOOKUP.value, b, a, None)
                                = process_args(registered[i], a)
                /\ BINDINGS_DATA.state = "complete" =>
                      b \in Range(BINDINGS_DATA.value.val.content[i].bindings)

\* C7 witness: both the table and the descriptor list are built, "instagram"
\* maps to InstagramCommand and its descriptor lists "instagram".
C7_Witness ==
    /\ COMMAND_LOOKUP.state = "complete"
    /\ BINDINGS_DATA.state = "complete"
    /\ COMMAND_LOOKUP.value[<<"i", "n", "s", "t", "a", "g", "r", "a", "m">>] = "InstagramCommand"
    /\ <<"i", "n", "s", "t", "a", "g", "r", "a", "m">> \in Range(BINDINGS_DATA.value.val.content[3].bindings)

\* C8: search resolves user aliases once, on the whole cmd string, before the
\* token is taken: a cmd that is an alias key is redirected to the router's URL
\* for the expansion (its first token, the whole expansion), the expansion is
\* not resolved again, and any other cmd is routed as it is.
C8_AliasResolvedOnce ==
    \A t \in Workers :
        (w[t].pc = "done" /\ w[t].mode = "http" /\ w[t].cmd.some) =>
            LET raw == w[t].cmd.val
                exp == IF raw \in DOMAIN config.aliases THEN config.aliases[raw] ELSE raw
            IN  /\ w[t].full_args = exp
                /\ w[t].command = get_command_from_query_string(exp)
                /\ w[t].response =
                      Redirect(process_command_with_config(
                                   registered, get_command_from_query_string(exp),
                                   exp, Some(config)))

\* C8 witness: with work -> "home" and home -> "gh mbinns", cmd "work" has been
\* redirected to the default search for "home", not to GitHub.
C8_Witness ==
    \E t \in Workers :
        /\ w[t].pc = "done"
        /\ w[t].cmd = Some(<<"w", "o", "r", "k">>)
        /\ config.aliases = ChainAlias
        /\ config.default_search = "google"
        /\ w[t].response = Redirect(<<"h", "t", "t", "p", "s", ":", "/", "/", "w", "w", "w", ".", "g", "o", "o", "g", "l", "e", ".", "c", "o", "m", "/", "s", "e", "a", "r", "c", "h", "?", "q", "=", "h", "o", "m", "e">>)

\* C9: every request with a cmd is answered by the redirect to the URL the
\* router returned, whether history is disabled, the store cannot be opened,
\* the write fails or the write succeeds; a warning is printed exactly when
\* the write fails.
C9_HistoryBestEffort ==
    \A t \in Workers :
        (w[t].pc = "done" /\ w[t].mode = "http" /\ w[t].cmd.some) =>
            /\ w[t].hist \in {"disabled", "unopened", "failed", "saved"}
            /\ (w[t].hist = "disabled") = ~config.history.enabled
            /\ w[t].response = [kind |-> "redirect", to |-> w[t].redirect_url.val]
            /\ w[t].warned = (w[t].hist = "failed")

\* C9 witness: a request whose history write failed has been answered by the
\* redirect to GitHub, with the warning printed.
C9_Witness ==
    \E t \in Workers :
        /\ w[t].pc = "done"
        /\ w[t].cmd = Some(<<"g", "h", " ", "m", "b", "i", "n", "n", "s">>)
        /\ w[t].hist = "failed"
        /\ w[t].warned
        /\ w[t].response = Redirect(<<"h", "t", "t", "p", "s", ":", "/", "/", "g", "i", "t", "h", "u", "b", ".", "c", "o", "m", "/", "m", "b", "i", "n", "n", "s">>)

\* The position of the last registered command that declares binding b
LastDeclarer(reg, b) ==
    CHOOSE i \in DOMAIN reg :
        /\ b \in Range(BINDINGS(reg[i]))
        /\ \A k \in DOMAIN reg : b \in Range(BINDINGS(reg[k])) => k <= i

\* C10: when two registered commands declare the same binding, the build
\* completes without error and the table holds, for each distinct binding,
\* the handler of the last command registered with it.
C10_LaterRegistrationShadows ==
    /\ COMMAND_LOOKUP.state \in {"uninit", "running", "complete"}
    /\ \A t \in Workers :
          w[t].pc = "init" => w[t].pos \in 1..(Len(Insertions(registered)) + 1)
    /\ COMMAND_LOOKUP.state = "complete" =>
          /\ DOMAIN COMMAND_LOOKUP.value = AllBindings(registered)
          /\ \A b \in AllBindings(registered) :
                COMMAND_LOOKUP.value[b] = registered[LastDeclarer(registered, b)]

\* C10 witness: ShadowCommand is registered between InstagramCommand and
\* OpenCommand; the built table gives "ig" to ShadowCommand and "open" to
\* OpenCommand.
C10_Witness ==
    /\ COMMAND_LOOKUP.state = "complete"
    /\ registered = << "GitHubCommand", "RedditCommand", "InstagramCommand",
                       "ShadowCommand", "OpenCommand" >>
    /\ COMMAND_LOOKUP.value[<<"i", "g">>] = "ShadowCommand"
    /\ COMMAND_LOOKUP.value[<<"o", "p", "e", "n">>] = "OpenCommand"

====
